---------------------------- MODULE Spec2Model ----------------------------
(***************************************************************************)
(* Model of the block documentation generator                              *)
(* (development/docs/build_block_docs.py) and of the relative static crop  *)
(* (inference/core/workflows/core_steps/transformations/                   *)
(* relative_static_crop.py).                                               *)
(*                                                                         *)
(* Representation of Python values:                                        *)
(*  - a dict is a function from key strings to values; "k in d" is         *)
(*    k \in DOMAIN d and the empty dict is <<>>;                           *)
(*  - an ordered mapping that is iterated (properties) is a sequence of    *)
(*    [name, definition] records in insertion order;                       *)
(*  - text that the code takes apart (class names, "$ref" paths, lines of  *)
(*    the index document) is a sequence of chunks, each chunk a string;    *)
(*    class names are spelled one character per chunk;                     *)
(*  - text that the code only builds is a string, built with \o;           *)
(*  - the value of a schema's "type" key is a string (a JSON-schema type   *)
(*    name);                                                               *)
(*  - a call's outcome is a record: it returns a value, returns None, or   *)
(*    raises an exception.                                                 *)
(***************************************************************************)
EXTENDS Integers, Sequences, FiniteSets, TLC

VARIABLES
    \* the documentation pipeline (module-level script of build_block_docs.py)
    pc,                 \* position of the script
    dir_exists,         \* BLOCK_DOCUMENTATION_DIRECTORY exists on disk
    index_file,         \* BLOCK_DOCUMENTATION_FILE on disk: a sequence of lines
    docs,               \* per-block documents on disk: path -> content
    blocks,             \* describe_available_blocks().blocks
    lines,              \* the script's variable lines
    lines_with_token_indexes,
    block_card_lines,
    next_block,         \* position of the for loop in blocks (1-based)
    run,                \* which invocation of the script this is
    pre,                \* the files on disk when this invocation started
    write_log,          \* per-block documents written by this invocation
    index_writes,       \* writes of the index document by this invocation
    \* application of the formatting functions to one input
    fmt_pc, fmt_in, fmt_out,
    \* application of take_static_crop to one input
    crop_pc, crop_in, crop_out

pipeline_vars == <<pc, dir_exists, index_file, docs, blocks, lines,
                   lines_with_token_indexes, block_card_lines, next_block,
                   run, pre, write_log, index_writes>>
fmt_vars == <<fmt_pc, fmt_in, fmt_out>>
crop_vars == <<crop_pc, crop_in, crop_out>>
vars == <<pipeline_vars, fmt_vars, crop_vars>>

---------------------------------------------------------------------------
(* Bounds of the model *)

\* longest anyOf/oneOf/allOf list of the schemas the formatters are applied to
MaxBranches == 2
\* longest index document, in lines
MaxLines == 4
\* longest block listing
MaxBlocks == 2
\* invocations of the script in a row
MaxRuns == 2
\* largest image height and width
MaxDim == 3
\* relative coordinates are the fractions 0/Den .. Den/Den
Den == 4

---------------------------------------------------------------------------
(* Text helpers *)

RECURSIVE Str(_)
\* the string spelled by a sequence of chunks
Str(chunks) ==
    IF chunks = <<>> THEN "" ELSE Head(chunks) \o Str(Tail(chunks))

RECURSIVE Join(_, _)
\* sep.join(strs)
Join(sep, strs) ==
    IF strs = <<>> THEN ""
    ELSE IF Len(strs) = 1 THEN strs[1]
    ELSE strs[1] \o sep \o Join(sep, Tail(strs))

\* index of the last chunk equal to sep, 0 when there is none
LastIndexOf(chunks, sep) ==
    LET hits == {i \in 1..Len(chunks) : chunks[i] = sep}
    IN  IF hits = {} THEN 0 ELSE CHOOSE i \in hits : \A j \in hits : j <= i

\* text.split(sep)[-1], as chunks
SplitLast(chunks, sep) ==
    SubSeq(chunks, LastIndexOf(chunks, sep) + 1, Len(chunks))

RECURSIVE Dedup(_)
\* the distinct elements of a sequence, in order of first occurrence
Dedup(s) ==
    IF s = <<>> THEN <<>>
    ELSE LET init == Dedup(SubSeq(s, 1, Len(s) - 1))
             last == s[Len(s)]
         IN  IF \E i \in 1..Len(init) : init[i] = last
             THEN init ELSE Append(init, last)

---------------------------------------------------------------------------
(* Call outcomes *)

Returns(v)   == [kind |-> "return", value |-> v, exc |-> ""]
ReturnsNone  == [kind |-> "none",   value |-> <<>>, exc |-> ""]
Raises(e)    == [kind |-> "raise",  value |-> <<>>, exc |-> e]

---------------------------------------------------------------------------
(* TYPE_MAPPING and create_array_typing *)

TYPE_MAPPING ==
    [number |-> "float", integer |-> "int", boolean |-> "bool",
     string |-> "str", null |-> "None"]

\* "$ref" in s, for a string s: a substring test.  Of the type names the
\* model uses, only "$ref" itself contains it.
StrContainsRefKey(s) == s \in {"$ref"}

\* create_array_typing applied to a str (line 155 passes items["type"],
\* which is the string "array"): line 144 calls .get on it.
create_array_typing_of_str == Raises("AttributeError")

create_array_typing(array_definition) ==
    LET high_level_type ==
            IF "uniqueItems" \in DOMAIN array_definition
               /\ array_definition["uniqueItems"] = TRUE
            THEN "Set" ELSE "List"
    IN
    IF "items" \notin DOMAIN array_definition THEN Raises("KeyError")
    ELSE
    LET items == array_definition["items"] IN
    IF DOMAIN items = {}
    THEN Returns(<<high_level_type \o "[Any]", FALSE>>)
    ELSE IF "type" \in DOMAIN items
    THEN LET ref_appears == "reference" \in DOMAIN items
             t == items["type"]
         IN  IF StrContainsRefKey(t) THEN Raises("TypeError")
             ELSE IF t \in DOMAIN TYPE_MAPPING
             THEN Returns(<<high_level_type \o "[" \o TYPE_MAPPING[t] \o "]",
                            ref_appears>>)
             ELSE IF t = "array"
             THEN create_array_typing_of_str
             ELSE Returns(<<high_level_type \o "[unknown]", ref_appears>>)
    ELSE ReturnsNone

---------------------------------------------------------------------------
(* format_inputs *)

\* list(result) for the set result: the iteration order of a set of strings
\* follows the strings' hashes, which differ from one interpreter process to
\* the next (hash randomisation).  h is a permutation of 1..MaxBranches
\* standing for the process's hash order; names holds the set's elements.
list_of_set(names, h) ==
    LET k == Len(names)
        at(j) == CHOOSE i \in 1..k :
                    Cardinality({m \in 1..k : h[m] < h[i]}) = j - 1
    IN  [j \in 1..k |-> names[at(j)]]

HashOrders == Permutations(1..MaxBranches)

\* dict.get(key, []) of lines 108-110
GetList(d, key) == IF key \in DOMAIN d THEN d[key] ELSE <<>>

\* property_definition.get("description", "not available")
description_of(property_definition) ==
    IF "description" \in DOMAIN property_definition
    THEN property_definition["description"] ELSE "not available"

\* line 122: t_name, ref_appears_nested = r; None cannot be unpacked
unpacked(r) == IF r.kind = "none" THEN Raises("TypeError") ELSE r

\* lines 117-125: the type name of one non-reference branch, and whether
\* a reference appeared inside it
branch_type_name(t) ==
    IF "$ref" \in DOMAIN t
    THEN Returns(<<Str(SplitLast(t["$ref"], "/")), FALSE>>)
    ELSE IF "type" \notin DOMAIN t THEN Raises("KeyError")
    ELSE IF t["type"] \in DOMAIN TYPE_MAPPING
    THEN Returns(<<TYPE_MAPPING[t["type"]], FALSE>>)
    ELSE IF t["type"] = "array"
    THEN unpacked(create_array_typing(t))
    ELSE Returns(<<"unknown", FALSE>>)

\* a wrapper applied to every union
wrap_union_always(high_level_type, result_str, primitive_types) ==
    high_level_type \o "[" \o result_str \o "]"

\* lines 134-135: the wrapper is applied by the number of non-reference
\* branches
wrap_union(high_level_type, result_str, primitive_types) ==
    IF Len(primitive_types) > 1
    THEN high_level_type \o "[" \o result_str \o "]"
    ELSE result_str

\* lines 108-110: the branches of anyOf, oneOf and allOf, in this order
union_branches(property_definition) ==
    GetList(property_definition, "anyOf")
    \o GetList(property_definition, "oneOf")
    \o GetList(property_definition, "allOf")

\* line 111
non_reference_branches(x) ==
    SelectSeq(x, LAMBDA e : "reference" \notin DOMAIN e)

\* the outcomes of lines 117-125 for every non-reference branch
branch_outcomes(primitive_types) ==
    [i \in 1..Len(primitive_types) |-> branch_type_name(primitive_types[i])]

\* the first branch whose resolution raises, 0 when none does
first_raising(outcomes) ==
    LET raising == {i \in 1..Len(outcomes) : outcomes[i].kind = "raise"}
    IN  IF raising = {} THEN 0
        ELSE CHOOSE i \in raising : \A j \in raising : i <= j

\* lines 112-136, given the branches x, the non-reference branches
\* primitive_types and the outcomes of resolving them
format_union_branches(property_name, property_definition, x, primitive_types, outcomes, h) ==
    IF Len(primitive_types) = 0 THEN [kind |-> "skip"]
    ELSE IF first_raising(outcomes) # 0
    THEN [kind |-> "raise", exc |-> outcomes[first_raising(outcomes)].exc]
    ELSE
    LET ref_appears == Len(primitive_types) # Len(x)
                       \/ \E i \in 1..Len(outcomes) : outcomes[i].value[2]
        result == Dedup([i \in 1..Len(outcomes) |-> outcomes[i].value[1]])
        high_level_type ==
            IF \E i \in 1..Len(outcomes) : outcomes[i].value[1] = "None"
            THEN "Optional" ELSE "Union"
        result_str ==
            Join(", ", list_of_set(SelectSeq(result, LAMBDA n : n # "None"),
                                   h))
    IN  [kind |-> "row",
         row |-> <<property_name,
                   wrap_union(high_level_type, result_str, primitive_types),
                   description_of(property_definition),
                   ref_appears>>]

\* lines 107-136: a property with anyOf / oneOf / allOf
format_union(property_name, property_definition, h) ==
    format_union_branches(
        property_name, property_definition,
        union_branches(property_definition),
        non_reference_branches(union_branches(property_definition)),
        branch_outcomes(
            non_reference_branches(union_branches(property_definition))),
        h)

\* lines 104-105, given the outcome r of create_array_typing: a raise
\* goes on; None cannot be unpacked; and dict.get is called with three
\* arguments
after_array_typing(r) ==
    IF r.kind = "raise" THEN [kind |-> "raise", exc |-> r.exc]
    ELSE [kind |-> "raise", exc |-> "TypeError"]

\* lines 101-106: a property with items.  create_array_typing is given the
\* items dict itself.
format_array_property(property_name, property_definition) ==
    IF "reference" \in DOMAIN property_definition["items"]
    THEN [kind |-> "skip"]
    ELSE after_array_typing(create_array_typing(property_definition["items"]))

\* one iteration of the loop of lines 94-138
format_property(property_name, property_definition, h) ==
    IF property_name = "type" THEN [kind |-> "skip"]
    ELSE IF "type" \in DOMAIN property_definition
            /\ property_definition["type"] \in DOMAIN TYPE_MAPPING
    THEN [kind |-> "row",
          row |-> <<property_name,
                    TYPE_MAPPING[property_definition["type"]],
                    description_of(property_definition),
                    FALSE>>]
    ELSE IF "items" \in DOMAIN property_definition
    THEN format_array_property(property_name, property_definition)
    ELSE IF {"anyOf", "oneOf", "allOf"} \cap DOMAIN property_definition # {}
    THEN format_union(property_name, property_definition, h)
    ELSE [kind |-> "skip"]

RECURSIVE format_properties(_, _, _)
RECURSIVE after_property(_, _, _, _)
\* the loop of lines 94-138 after the first of properties gave r
after_property(properties, global_result, h, r) ==
    IF r.kind = "raise" THEN Raises(r.exc)
    ELSE format_properties(
            Tail(properties),
            IF r.kind = "row" THEN Append(global_result, r.row)
            ELSE global_result,
            h)

\* the loop of lines 94-138 over properties.items(), global_result so far
format_properties(properties, global_result, h) ==
    IF properties = <<>> THEN Returns(global_result)
    ELSE after_property(
            properties, global_result, h,
            format_property(Head(properties).name,
                            Head(properties).definition, h))

format_inputs(block_definition, h) ==
    IF "properties" \notin DOMAIN block_definition THEN Raises("KeyError")
    ELSE format_properties(block_definition["properties"], <<>>, h)

---------------------------------------------------------------------------
(* camel_to_snake, block_class_name_to_block_title, get_class_name *)

UpperChars == <<"A","B","C","D","E","F","G","H","I","J","K","L","M",
                "N","O","P","Q","R","S","T","U","V","W","X","Y","Z">>
LowerChars == <<"a","b","c","d","e","f","g","h","i","j","k","l","m",
                "n","o","p","q","r","s","t","u","v","w","x","y","z">>
DigitChars == <<"0","1","2","3","4","5","6","7","8","9">>

IsUpper(c) == \E i \in 1..Len(UpperChars) : UpperChars[i] = c
IsLower(c) == \E i \in 1..Len(LowerChars) : LowerChars[i] = c
IsDigit(c) == \E i \in 1..Len(DigitChars) : DigitChars[i] = c

\* str.lower() and str.upper(), character by character
ToLower(c) ==
    IF IsUpper(c)
    THEN LowerChars[CHOOSE i \in 1..Len(UpperChars) : UpperChars[i] = c]
    ELSE c
ToUpper(c) ==
    IF IsLower(c)
    THEN UpperChars[CHOOSE i \in 1..Len(LowerChars) : LowerChars[i] = c]
    ELSE c
Lowered(s) == [i \in 1..Len(s) |-> ToLower(s[i])]
Uppered(s) == [i \in 1..Len(s) |-> ToUpper(s[i])]

\* number of consecutive characters of s from position i on that are
\* lower case (upper case)
LowerRun(s, i) ==
    LET ends == {n \in 0..(Len(s) - i + 1) :
                    \A j \in i..(i + n - 1) : IsLower(s[j])}
    IN  CHOOSE n \in ends : \A m \in ends : m <= n
UpperRun(s, i) ==
    LET ends == {n \in 0..(Len(s) - i + 1) :
                    \A j \in i..(i + n - 1) : IsUpper(s[j])}
    IN  CHOOSE n \in ends : \A m \in ends : m <= n

RECURSIVE sub_word_boundary(_, _)
\* re.sub('(.)([A-Z][a-z]+)', r'\1_\2', s), scanning from position i
sub_word_boundary(s, i) ==
    IF i > Len(s) THEN <<>>
    ELSE IF i + 2 <= Len(s) /\ IsUpper(s[i + 1]) /\ IsLower(s[i + 2])
    THEN LET e == i + 1 + LowerRun(s, i + 2)
         IN  <<s[i], "_">> \o SubSeq(s, i + 1, e) \o sub_word_boundary(s, e + 1)
    ELSE <<s[i]>> \o sub_word_boundary(s, i + 1)

RECURSIVE sub_case_boundary(_, _)
\* re.sub('([a-z0-9])([A-Z])', r'\1_\2', s), scanning from position i
sub_case_boundary(s, i) ==
    IF i > Len(s) THEN <<>>
    ELSE IF i + 1 <= Len(s) /\ (IsLower(s[i]) \/ IsDigit(s[i]))
            /\ IsUpper(s[i + 1])
    THEN <<s[i], "_", s[i + 1]>> \o sub_case_boundary(s, i + 2)
    ELSE <<s[i]>> \o sub_case_boundary(s, i + 1)

camel_to_snake(name) ==
    Lowered(sub_case_boundary(sub_word_boundary(name, 1), 1))

RECURSIVE find_words(_, _)
RECURSIVE word_at(_, _, _, _)
\* the match at the upper-case character s[i], followed by l lower-case
\* and u upper-case characters, and the matches after it
word_at(s, i, l, u) ==
    IF l >= 1
    THEN <<SubSeq(s, i, i + l)>> \o find_words(s, i + l + 1)
    ELSE IF i + u = Len(s)
    THEN <<SubSeq(s, i, i + u)>>
    ELSE IF u >= 1
    THEN <<SubSeq(s, i, i + u - 1)>> \o find_words(s, i + u)
    ELSE find_words(s, i + 1)

\* re.findall(r'[A-Z](?:[a-z]+|[A-Z]*(?=[A-Z]|$))', s), from position i
find_words(s, i) ==
    IF i > Len(s) THEN <<>>
    ELSE IF ~IsUpper(s[i]) THEN find_words(s, i + 1)
    ELSE word_at(s, i, LowerRun(s, i + 1), UpperRun(s, i + 1))

\* lines 76-79, given the words found
title_of_words(words) ==
    IF words = <<>> THEN Raises("IndexError")
    ELSE Returns(Join(" ",
            [i \in 1..(IF words[Len(words)] = <<"B","l","o","c","k">>
                       THEN Len(words) - 1 ELSE Len(words)) |->
                Str(words[i])]))

block_class_name_to_block_title(name) == title_of_words(find_words(name, 1))

get_class_name(fully_qualified_name) == SplitLast(fully_qualified_name, ".")

---------------------------------------------------------------------------
(* Tables and templates *)

USER_CONFIGURATION_HEADER ==
    <<"| **Name** | **Type** | **Description** | **Parameterizable** |",
      "|:---------|:---------|:----------------|:--------------------|">>

BLOCK_OUTPUTS_HEADER ==
    <<"| **Name** | **Kind** | **Description** |",
      "|:---------|:---------|:----------------|">>

AUTOGENERATED_BLOCKS_LIST_TOKEN == "<!--- AUTOGENERATED_BLOCKS_LIST -->"

BLOCK_DOCUMENTATION_DIRECTORY == "docs/workflows/blocks"

\* The backquotes of the table rows are written ' in the model's strings
\* (a TLA+ string cannot hold a backquote).

\* str(b) for a bool, as an f-string renders it
BoolStr(b) == IF b THEN "True" ELSE "False"

\* lines 163-167, given the outcome of format_inputs
input_rows(data) ==
    IF data.kind = "raise" THEN data
    ELSE Returns(Join("\n", USER_CONFIGURATION_HEADER
            \o [i \in 1..Len(data.value) |->
                    "| '" \o data.value[i][1] \o "' | '"
                    \o data.value[i][2] \o "' | "
                    \o data.value[i][3] \o ". | "
                    \o BoolStr(data.value[i][4]) \o " |"]))

format_block_inputs(outputs_manifest, h) ==
    input_rows(format_inputs(outputs_manifest, h))

output_row(output) ==
    IF Len(output.kind) = 1
    THEN "| '" \o output.name \o "' | '" \o output.kind[1].name \o "' | "
         \o output.kind[1].description \o ". |"
    ELSE LET kind == Join(", ", [i \in 1..Len(output.kind) |->
                                    output.kind[i].name])
             description ==
                 Join(" or ", [i \in 1..Len(output.kind) |->
                                output.kind[i].description \o " if '"
                                \o output.kind[i].name \o "'"])
         IN  "| '" \o output.name \o "' | 'Union[" \o kind \o "]' | "
             \o description \o ". |"

format_block_outputs(outputs_manifest) ==
    Join("\n", BLOCK_OUTPUTS_HEADER
               \o [i \in 1..Len(outputs_manifest) |->
                      output_row(outputs_manifest[i])])

\* BLOCK_DOCUMENTATION_TEMPLATE.format(...)
block_documentation(class_name, description, block_inputs, block_outputs) ==
    "\n# " \o class_name \o "\n\n" \o description
    \o "\n\n## User Configuration\n\n" \o block_inputs
    \o "\n\n## Input Bindings\n\n"
    \o "| **Name** | **Kind** | **Description** |\n"
    \o "|:---------|:---------|:----------------|\n\n"
    \o "## Output Bindings\n\n" \o block_outputs \o "\n"

\* BLOCK_CARD_TEMPLATE.format(...)
block_card(data_url, data_name, data_desc, data_labels, data_authors) ==
    "<p class=\"card block-card\" data-url=\"" \o data_url
    \o "\" data-name=\"" \o data_name
    \o "\" data-desc=\"" \o data_desc
    \o "\" data-labels=\"" \o data_labels
    \o "\" data-author=\"" \o data_authors \o "\"></p>"

---------------------------------------------------------------------------
(* The index document: read_lines_from_file, save_lines_to_file,           *)
(* search_lines_with_token                                                 *)

\* A line is a sequence of chunks.  A whitespace chunk is one of these; no
\* other chunk starts or ends with whitespace.  The sentinel token is a chunk
\* of its own, and no other chunk contains it.
Whitespace == {" ", "\t"}

RECURSIVE rstrip(_)
\* line.rstrip(): trailing whitespace (the line end included) removed
rstrip(line) ==
    IF line # <<>> /\ line[Len(line)] \in Whitespace
    THEN rstrip(SubSeq(line, 1, Len(line) - 1))
    ELSE line

\* the file is a sequence of lines, each ended by a line end
read_lines_from_file(file) == [i \in 1..Len(file) |-> rstrip(file[i])]

\* f.write("%s\n" % line) for every line: the file holds exactly the lines
save_lines_to_file(ls) == ls

\* token in line
line_has_token(line, token) == \E i \in 1..Len(line) : line[i] = token

RECURSIVE search_lines_with_token(_, _, _)
\* the 0-based indexes of the lines holding the token, from line_index on
search_lines_with_token(ls, token, line_index) ==
    IF line_index >= Len(ls) THEN <<>>
    ELSE (IF line_has_token(ls[line_index + 1], token)
          THEN <<line_index>> ELSE <<>>)
         \o search_lines_with_token(ls, token, line_index + 1)

\* a sentinel check that only asks for enough sentinel lines
sentinel_check_too_few(indexes) == Len(indexes) < 2

\* line 201: the sentinel check fails
sentinel_check_fails(indexes) == Len(indexes) # 2

\* a splice that cuts at the first sentinel line instead of after it
splice_from_start(ls, start_index, end_index, cards) ==
    SubSeq(ls, 1, start_index) \o cards \o SubSeq(ls, end_index + 1, Len(ls))

\* line 239: lines[:start_index + 1] + block_card_lines + lines[end_index:]
splice(ls, start_index, end_index, cards) ==
    SubSeq(ls, 1, start_index + 1) \o cards \o SubSeq(ls, end_index + 1, Len(ls))

---------------------------------------------------------------------------
(* One iteration of the loop of lines 209-237 *)

\* block.block_manifest.get(key, '')
GetStr(d, key) == IF key \in DOMAIN d THEN d[key] ELSE ""

\* What one iteration does for a block: whether it raised, and whether the
\* block's document was written before that (lines 227-228).  Given the
\* class name, its snake-case form, and the outcomes of format_block_inputs
\* and block_class_name_to_block_title.
iteration(block, block_class_name, snake, inputs, title) ==
    [path |-> BLOCK_DOCUMENTATION_DIRECTORY \o "/" \o snake \o ".md",
     raised |->
        IF "block_type" \notin DOMAIN block.block_manifest      \* line 211
        THEN "KeyError"
        ELSE IF inputs.kind = "raise" THEN inputs.exc           \* line 224
        ELSE IF title.kind = "raise" THEN title.exc             \* line 232
        ELSE "",
     written |-> "block_type" \in DOMAIN block.block_manifest
                 /\ inputs.kind # "raise",
     content |->
        IF "block_type" \in DOMAIN block.block_manifest
           /\ inputs.kind # "raise"
        THEN block_documentation(
                block_class_name,
                GetStr(block.block_manifest, "long_description"),
                inputs.value,
                format_block_outputs(block.outputs_manifest))
        ELSE "",
     card |->
        IF "block_type" \in DOMAIN block.block_manifest
           /\ inputs.kind # "raise" /\ title.kind # "raise"
        THEN block_card(snake, title.value,
                        GetStr(block.block_manifest, "short_description"),
                        Str(Uppered(block.block_manifest["block_type"])),
                        "")
        ELSE ""]

process_class(block, block_class_name, h) ==
    iteration(block, Str(block_class_name),
              Str(camel_to_snake(block_class_name)),
              format_block_inputs(block.block_manifest, h),
              block_class_name_to_block_title(block_class_name))

process_block(block, h) ==
    process_class(block, get_class_name(block.fully_qualified_class_name), h)

\* a loop that stops one block early
loop_finished_early(listing, position) == position >= Len(listing)

\* line 209: the loop has gone through the listing
loop_finished(listing, position) == position > Len(listing)

---------------------------------------------------------------------------
(* Inputs of the pipeline *)

\* BATCH_OF_IMAGES_KIND and BATCH_OF_PARENT_ID_KIND, as far as the script
\* reads them: a kind's name and its description
BATCH_OF_IMAGES_KIND == [name |-> "Batch[image]", description |-> "Images"]
BATCH_OF_PARENT_ID_KIND ==
    [name |-> "Batch[parent_id]", description |-> "Parent ids"]

\* relative_static_crop.py, lines 35-42 (three of its lines end in a space)
LONG_DESCRIPTION ==
    "\nCrop a Region of Interest (RoI) from an image, using relative coordinates.\n"
    \o "\n"
    \o "This is useful when placed after an ObjectDetection block as part of a multi-stage \n"
    \o "workflow. For example, you could use an ObjectDetection block to detect objects, then \n"
    \o "the RelativeStaticCrop block to crop objects, then an OCR block to run character \n"
    \o "recognition on each of the individual cropped regions.\n"

\* the schema branch of a FloatZeroToOne: a number
FloatZeroToOne == [type |-> "number"]

\* the schema branch of a selector (WorkflowImageSelector,
\* StepOutputImageSelector, WorkflowParameterSelector): a string that
\* carries the reference marker
Selector == [type |-> "string", reference |-> TRUE]

\* The schema of BlockManifest, lines 45-84: the entries of
\* json_schema_extra and one property per field, in declaration order.  The
\* number 0.3 of the examples is written as its text.
BlockManifest ==
    [short_description |-> "Use relative coordinates for cropping.",
     long_description |-> LONG_DESCRIPTION,
     license |-> "Apache-2.0",
     block_type |-> <<"t","r","a","n","s","f","o","r","m","a","t","i","o","n">>,
     properties |->
        <<[name |-> "type",
           definition |-> [const |-> "RelativeStaticCrop"]],
          [name |-> "name",
           definition |->
              [type |-> "string",
               description |-> "Unique name of step in workflows"]],
          [name |-> "images",
           definition |->
              [anyOf |-> <<Selector, Selector>>,
               description |->
                  "Reference an image to be used as input for step processing",
               examples |-> <<"$inputs.image", "$steps.cropping.crops">>]],
          [name |-> "x_center",
           definition |->
              [anyOf |-> <<FloatZeroToOne, Selector>>,
               description |->
                  "Center X of static crop (relative coordinate 0.0-1.0)",
               examples |-> <<"0.3", "$inputs.center_x">>]],
          [name |-> "y_center",
           definition |->
              [anyOf |-> <<FloatZeroToOne, Selector>>,
               description |->
                  "Center Y of static crop (relative coordinate 0.0-1.0)",
               examples |-> <<"0.3", "$inputs.center_y">>]],
          [name |-> "width",
           definition |->
              [anyOf |-> <<FloatZeroToOne, Selector>>,
               description |->
                  "Width of static crop (relative value 0.0-1.0)",
               examples |-> <<"0.3", "$inputs.width">>]],
          [name |-> "height",
           definition |->
              [anyOf |-> <<FloatZeroToOne, Selector>>,
               description |->
                  "Height of static crop (relative value 0.0-1.0)",
               examples |-> <<"0.3", "$inputs.height">>]]>>]

\* BlockManifest.describe_outputs(), lines 86-91
describe_outputs ==
    <<[name |-> "crops", kind |-> <<BATCH_OF_IMAGES_KIND>>],
      [name |-> "parent_id", kind |-> <<BATCH_OF_PARENT_ID_KIND>>]>>

\* The descriptor of RelativeStaticCropBlock (lines 94-98) in the listing:
\* the class under its module's dotted path, the schema of its manifest and
\* the outputs the manifest describes.
RelativeStaticCropBlock ==
    [fully_qualified_class_name |->
        <<"inference", ".", "core", ".", "workflows", ".", "core_steps", ".",
          "transformations", ".", "relative_static_crop", ".",
          "R","e","l","a","t","i","v","e","S","t","a","t","i","c",
          "C","r","o","p","B","l","o","c","k">>,
     block_manifest |-> BlockManifest,
     outputs_manifest |-> describe_outputs]

\* a block with a property that may hold either of two primitive types
UnionBlock ==
    [fully_qualified_class_name |-> <<"inference", ".", "V","L","M">>,
     block_manifest |->
        [block_type |-> <<"m","o","d","e","l">>,
         long_description |-> "Run a model.",
         properties |->
            <<[name |-> "prompt",
               definition |-> [anyOf |-> <<[type |-> "string"],
                                           [type |-> "integer"]>>]]>>],
     outputs_manifest |->
        <<[name |-> "result",
           kind |-> <<BATCH_OF_IMAGES_KIND, BATCH_OF_PARENT_ID_KIND>>]>>]

\* a block with an array property
ArrayBlock ==
    [fully_qualified_class_name |-> <<"T","a","g","s">>,
     block_manifest |->
        [block_type |-> <<"s","i","n","k">>,
         properties |->
            <<[name |-> "tags",
               definition |-> [type |-> "array",
                               items |-> [type |-> "string"]]]>>],
     outputs_manifest |-> <<>>]

\* a block whose class name holds no capitalised word
LowerCaseBlock ==
    [fully_qualified_class_name |-> <<"inference", ".", "v","2">>,
     block_manifest |-> [block_type |-> <<"s","i","n","k">>,
                         properties |-> <<>>],
     outputs_manifest |-> <<>>]

BlockUniverse ==
    {RelativeStaticCropBlock, UnionBlock, ArrayBlock, LowerCaseBlock}

Listings == UNION {[1..n -> BlockUniverse] : n \in 0..MaxBlocks}

\* lines of an index document: text, text with trailing whitespace, and a
\* sentinel line
IndexLines ==
    {<<"text">>, <<"text", " ", " ">>, <<AUTOGENERATED_BLOCKS_LIST_TOKEN>>}

IndexDocuments == UNION {[1..n -> IndexLines] : n \in 0..MaxLines}

\* the per-block documents on disk before the first invocation: none, or
\* a document of an earlier generation
InitialDocs ==
    {<<>>,
     (BLOCK_DOCUMENTATION_DIRECTORY \o "/relative_static_crop_block.md")
        :> "stale"}

\* the files on disk
Files == [docs |-> docs, index |-> index_file]

---------------------------------------------------------------------------
(* The pipeline: the module-level script, lines 195-240 *)

InitPipeline ==
    /\ pc = "start"
    /\ docs \in InitialDocs
    /\ dir_exists = (DOMAIN docs # {})
    /\ index_file \in IndexDocuments
    /\ blocks \in Listings
    /\ lines = <<>>
    /\ lines_with_token_indexes = <<>>
    /\ block_card_lines = <<>>
    /\ next_block = 1
    /\ run = 1
    /\ pre = Files
    /\ write_log = <<>>
    /\ index_writes = 0

IdlePipeline ==
    /\ pc = "idle"
    /\ docs = <<>>
    /\ dir_exists = FALSE
    /\ index_file = <<>>
    /\ blocks = <<>>
    /\ lines = <<>>
    /\ lines_with_token_indexes = <<>>
    /\ block_card_lines = <<>>
    /\ next_block = 1
    /\ run = 1
    /\ pre = [docs |-> <<>>, index |-> <<>>]
    /\ write_log = <<>>
    /\ index_writes = 0

IdleFmt == fmt_pc = "idle" /\ fmt_in = <<>> /\ fmt_out = <<>>

IdleCrop == crop_pc = "idle" /\ crop_in = <<>> /\ crop_out = <<>>

\* line 195
CreateDirectory ==
    /\ pc = "start"
    /\ dir_exists' = TRUE
    /\ pc' = "read"
    /\ UNCHANGED <<index_file, docs, blocks, lines, lines_with_token_indexes,
                   block_card_lines, next_block, run, pre, write_log,
                   index_writes>>
    /\ UNCHANGED <<fmt_vars, crop_vars>>

\* lines 197-199
ReadIndex ==
    /\ pc = "read"
    /\ lines' = read_lines_from_file(index_file)
    /\ lines_with_token_indexes' =
           search_lines_with_token(lines', AUTOGENERATED_BLOCKS_LIST_TOKEN, 0)
    /\ pc' = "check"
    /\ UNCHANGED <<dir_exists, index_file, docs, blocks, block_card_lines,
                   next_block, run, pre, write_log, index_writes>>
    /\ UNCHANGED <<fmt_vars, crop_vars>>

\* lines 201-207
CheckSentinels ==
    /\ pc = "check"
    /\ IF sentinel_check_fails(lines_with_token_indexes)
       THEN pc' = "aborted"
       ELSE pc' = "loop"
    /\ block_card_lines' = <<>>
    /\ next_block' = 1
    /\ UNCHANGED <<dir_exists, index_file, docs, blocks, lines,
                   lines_with_token_indexes, run, pre, write_log,
                   index_writes>>
    /\ UNCHANGED <<fmt_vars, crop_vars>>

\* lines 209-237, one iteration
ProcessBlock ==
    /\ pc = "loop"
    /\ ~loop_finished(blocks, next_block)
    /\ \E h \in HashOrders : \E r \in {process_block(blocks[next_block], h)} :
         /\ docs' = IF r.written THEN (r.path :> r.content) @@ docs ELSE docs
         /\ write_log' = IF r.written
                         THEN Append(write_log,
                                     [path |-> r.path, content |-> r.content])
                         ELSE write_log
         /\ IF r.raised # ""
            THEN /\ pc' = "failed"
                 /\ UNCHANGED <<block_card_lines, next_block>>
            ELSE /\ pc' = "loop"
                 /\ block_card_lines' = Append(block_card_lines, <<r.card>>)
                 /\ next_block' = next_block + 1
    /\ UNCHANGED <<dir_exists, index_file, blocks, lines,
                   lines_with_token_indexes, run, pre, index_writes>>
    /\ UNCHANGED <<fmt_vars, crop_vars>>

\* lines 239-240
SaveIndex ==
    /\ pc = "loop"
    /\ loop_finished(blocks, next_block)
    /\ lines' = splice(lines, lines_with_token_indexes[1],
                       lines_with_token_indexes[2], block_card_lines)
    /\ index_file' = save_lines_to_file(lines')
    /\ index_writes' = index_writes + 1
    /\ pc' = "done"
    /\ UNCHANGED <<dir_exists, docs, blocks, lines_with_token_indexes,
                   block_card_lines, next_block, run, pre, write_log>>
    /\ UNCHANGED <<fmt_vars, crop_vars>>

\* the script is invoked again, with the same listing, after it completed
Rerun ==
    /\ pc = "done"
    /\ run < MaxRuns
    /\ run' = run + 1
    /\ pc' = "start"
    /\ pre' = Files
    /\ lines' = <<>>
    /\ lines_with_token_indexes' = <<>>
    /\ block_card_lines' = <<>>
    /\ next_block' = 1
    /\ write_log' = <<>>
    /\ index_writes' = 0
    /\ UNCHANGED <<dir_exists, index_file, docs, blocks>>
    /\ UNCHANGED <<fmt_vars, crop_vars>>

Init == InitPipeline /\ IdleFmt /\ IdleCrop

Next ==
    \/ CreateDirectory
    \/ ReadIndex
    \/ CheckSentinels
    \/ ProcessBlock
    \/ SaveIndex
    \/ Rerun

Spec == Init /\ [][Next]_vars

---------------------------------------------------------------------------
(* The formatting functions applied to one input *)

RefPath == <<"#", "/", "$defs", "/", "Foo">>

\* items sub-schemas
ItemsUniverse ==
    {<<>>,
     [type |-> "string"], [type |-> "integer"], [type |-> "array"],
     [type |-> "object"], [type |-> "$ref"],
     [title |-> "x"],
     [type |-> "string", reference |-> TRUE],
     [items |-> <<>>]}

\* array schemas: every one has an items entry
ArraySchemas ==
    {[items |-> it] : it \in ItemsUniverse}
    \cup {[items |-> it, uniqueItems |-> u] :
            it \in ItemsUniverse, u \in BOOLEAN}

\* branches of a union
BranchUniverse ==
    {[type |-> "string"], [type |-> "integer"], [type |-> "null"],
     [type |-> "object"],
     [type |-> "array", items |-> [type |-> "string"]],
     [type |-> "array", items |-> [title |-> "x"]],
     "$ref" :> RefPath,
     [type |-> "string", reference |-> TRUE],
     [title |-> "x"]}

BranchLists == UNION {[1..n -> BranchUniverse] : n \in 1..MaxBranches}

UnionProperties ==
    {[anyOf |-> s] : s \in BranchLists}
    \cup {[oneOf |-> s, description |-> "One of these"] : s \in BranchLists}
    \cup {[allOf |-> <<a>>, anyOf |-> <<b>>] :
            a \in BranchUniverse, b \in BranchUniverse}

ArrayProperties ==
    {[type |-> "array", items |-> it] : it \in ItemsUniverse}
    \cup {[items |-> it, description |-> "Some items"] : it \in ItemsUniverse}
    \cup {[type |-> "array", items |-> [reference |-> TRUE]],
          [type |-> "array", items |-> [type |-> "string"],
           uniqueItems |-> TRUE]}

PrimitiveProperties ==
    {[type |-> t] : t \in DOMAIN TYPE_MAPPING}
    \cup {[type |-> t, description |-> "A value"] : t \in DOMAIN TYPE_MAPPING}

OtherProperties ==
    {[reference |-> TRUE], [type |-> "object"], [const |-> "RelativeStaticCrop"]}

PropertyDefinitions ==
    UnionProperties \cup ArrayProperties \cup PrimitiveProperties
    \cup OtherProperties

\* block definitions: one property of any shape, under an ordinary name or
\* the name "type"; two properties; one without properties; and the
\* manifest of the relative static crop
BlockDefinitions ==
    {[properties |-> <<[name |-> "field", definition |-> d]>>] :
        d \in PropertyDefinitions}
    \cup {[properties |-> <<[name |-> "type", definition |-> d]>>] :
            d \in PrimitiveProperties \cup ArrayProperties}
    \cup {[properties |-> <<[name |-> "first", definition |-> d],
                            [name |-> "second", definition |-> e]>>] :
            d \in PrimitiveProperties,
            e \in {[type |-> "boolean"], [reference |-> TRUE],
                   [anyOf |-> <<[type |-> "null"], [type |-> "number"]>>]}}
    \cup {[title |-> "no properties"]}
    \cup {BlockManifest}

FmtInputs ==
    {[fn |-> "create_array_typing", arg |-> a] : a \in ArraySchemas}
    \cup {[fn |-> "format_inputs", arg |-> b] : b \in BlockDefinitions}

InitFmt ==
    /\ fmt_pc = "ready"
    /\ fmt_in \in FmtInputs
    /\ fmt_out = <<>>

ApplyCreateArrayTyping ==
    /\ fmt_pc = "ready"
    /\ fmt_in.fn = "create_array_typing"
    /\ fmt_out' = create_array_typing(fmt_in.arg)
    /\ fmt_pc' = "done"
    /\ UNCHANGED <<fmt_in, pipeline_vars, crop_vars>>

ApplyFormatInputs ==
    /\ fmt_pc = "ready"
    /\ fmt_in.fn = "format_inputs"
    /\ \E h \in HashOrders : fmt_out' = format_inputs(fmt_in.arg, h)
    /\ fmt_pc' = "done"
    /\ UNCHANGED <<fmt_in, pipeline_vars, crop_vars>>

NextFmt == ApplyCreateArrayTyping \/ ApplyFormatInputs

InitFmtOnly == InitFmt /\ IdlePipeline /\ IdleCrop

SpecFmt == InitFmtOnly /\ [][NextFmt]_vars

---------------------------------------------------------------------------
(* take_static_crop *)

\* round(n / d) for d > 0, as Python rounds: to the nearest integer, a tie
\* to the even one
RoundHalfEven(n, d) ==
    LET q == n \div d
        r == n % d
    IN  IF 2 * r < d THEN q
        ELSE IF 2 * r > d THEN q + 1
        ELSE IF q % 2 = 0 THEN q ELSE q + 1

\* the indexes that the slice [lo:hi] takes of an axis of length n: a
\* negative bound counts from the end, and both are clipped to 0..n
SliceStart(lo, n) ==
    IF lo < 0 THEN (IF lo + n < 0 THEN 0 ELSE lo + n)
    ELSE (IF lo > n THEN n ELSE lo)
SliceIndexes(lo, hi, n) == SliceStart(lo, n) .. (SliceStart(hi, n) - 1)

\* lines 143-146: the centre and size in pixels, the relative values being
\* the fractions x_center / Den, ...
crop_pixels(shape, x_center, y_center, width, height) ==
    [x_center |-> RoundHalfEven(shape[2] * x_center, Den),
     y_center |-> RoundHalfEven(shape[1] * y_center, Den),
     width    |-> RoundHalfEven(shape[2] * width, Den),
     height   |-> RoundHalfEven(shape[1] * height, Den)]

\* lines 147-160, given the pixel values px
crop_window(shape, px) ==
    [x_min |-> RoundHalfEven(2 * px.x_center - px.width, 2),
     y_min |-> RoundHalfEven(2 * px.y_center - px.height, 2),
     x_max |-> RoundHalfEven(2 * px.x_center - px.width, 2) + px.width,
     y_max |-> RoundHalfEven(2 * px.y_center - px.height, 2) + px.height,
     rows  |-> SliceIndexes(
                   RoundHalfEven(2 * px.y_center - px.height, 2),
                   RoundHalfEven(2 * px.y_center - px.height, 2) + px.height,
                   shape[1]),
     cols  |-> SliceIndexes(
                   RoundHalfEven(2 * px.x_center - px.width, 2),
                   RoundHalfEven(2 * px.x_center - px.width, 2) + px.width,
                   shape[2]),
     width |-> px.width,
     height |-> px.height]

\* shape is <<image.shape[0], image.shape[1]>>: the height and the width
take_static_crop(shape, x_center, y_center, width, height) ==
    crop_window(shape, crop_pixels(shape, x_center, y_center, width, height))

CropInputs ==
    [shape : (1..MaxDim) \X (1..MaxDim),
     x_center : 0..Den, y_center : 0..Den, width : 0..Den, height : 0..Den]

InitCrop ==
    /\ crop_pc = "ready"
    /\ crop_in \in CropInputs
    /\ crop_out = <<>>

TakeStaticCrop ==
    /\ crop_pc = "ready"
    /\ crop_out' = take_static_crop(crop_in.shape, crop_in.x_center,
                                    crop_in.y_center, crop_in.width,
                                    crop_in.height)
    /\ crop_pc' = "done"
    /\ UNCHANGED <<crop_in, pipeline_vars, fmt_vars>>

NextCrop == TakeStaticCrop

InitCropOnly == InitCrop /\ IdlePipeline /\ IdleFmt

SpecCrop == InitCropOnly /\ [][NextCrop]_vars

---------------------------------------------------------------------------
(* Properties of the pipeline *)

\* the 1-based positions of the sentinel lines of an index document
SentinelLines(file) ==
    {i \in 1..Len(file) :
        line_has_token(file[i], AUTOGENERATED_BLOCKS_LIST_TOKEN)}
FirstOf(S) == CHOOSE i \in S : \A j \in S : i <= j
LastOf(S)  == CHOOSE i \in S : \A j \in S : j <= i

\* the card line of a block, as a line of the index document
CardLineOf(block) ==
    <<process_block(block, CHOOSE h \in HashOrders : TRUE).card>>

\* the lines between the two sentinel lines of the document the run found
LinesBetween(file) == LastOf(SentinelLines(file)) - FirstOf(SentinelLines(file)) - 1

\* C1: after a completed run on an index document with exactly two
\* sentinel lines, the document still has exactly two sentinel lines, and
\* strictly between them are exactly the card lines of the listed blocks,
\* one per block, in listing order.
C1_CardsBetweenSentinels ==
    (pc = "done") =>
        /\ Cardinality(SentinelLines(pre.index)) = 2
        /\ Cardinality(SentinelLines(index_file)) = 2
        /\ LinesBetween(index_file) = Len(blocks)
        /\ \A i \in 1..Len(blocks) :
              index_file[FirstOf(SentinelLines(index_file)) + i]
                  = CardLineOf(blocks[i])

\* a first run completed that replaced one line by the cards of two blocks
C1_Witness ==
    /\ pc = "done"
    /\ run = 1
    /\ Len(blocks) = 2
    /\ LinesBetween(pre.index) = 1

\* C2: when the index document does not have exactly two sentinel lines,
\* the run aborts at the check, and no file has been written: the
\* per-block documents and the index document are as they were.
C2_AbortBeforeAnyWrite ==
    (Cardinality(SentinelLines(pre.index)) # 2
        /\ pc \notin {"start", "read", "check"}) =>
        /\ pc = "aborted"
        /\ Files = pre
        /\ write_log = <<>>
        /\ index_writes = 0

\* a run aborted on three sentinel lines, with blocks to document and a
\* document of an earlier generation on disk
C2_Witness ==
    /\ pc = "aborted"
    /\ Cardinality(SentinelLines(pre.index)) = 3
    /\ blocks # <<>>
    /\ DOMAIN docs # {}

\* C3: a completed run writes back unchanged every line up to and including
\* the first sentinel line and every line from the second sentinel line on.
C3_OutsideLinesUnchanged ==
    (pc = "done") =>
        /\ SubSeq(index_file, 1, FirstOf(SentinelLines(index_file)))
             = SubSeq(pre.index, 1, FirstOf(SentinelLines(pre.index)))
        /\ SubSeq(index_file, LastOf(SentinelLines(index_file)),
                  Len(index_file))
             = SubSeq(pre.index, LastOf(SentinelLines(pre.index)),
                      Len(pre.index))

\* C4: a second completed run with the listing unchanged leaves the
\* per-block documents and the index document as the first run left them.
C4_SecondRunChangesNothing ==
    (run = 2 /\ pc = "done") => Files = pre

\* the last write of this run to a path
LastWritten(path) ==
    write_log[LastOf({j \in 1..Len(write_log) : write_log[j].path = path})]

\* C9: a run writes the index document at most once, and only after it
\* wrote the document of every listed block; until then the index document
\* has its content of before the run.  When the k-th block fails, the
\* documents of the blocks before it are on disk as the run wrote them.
C9_IndexWrittenLastAndOnce ==
    /\ index_writes <= 1
    /\ index_writes = 1 => (pc = "done" /\ Len(write_log) = Len(blocks))
    /\ pc # "done" => (index_writes = 0 /\ index_file = pre.index)
    /\ pc = "failed" =>
          /\ Len(write_log) >= next_block - 1
          /\ \A j \in 1..(next_block - 1) :
                /\ write_log[j].path \in DOMAIN docs
                /\ docs[write_log[j].path]
                     = LastWritten(write_log[j].path).content

\* the second block of the listing failed after the first one's document
\* was written
C9_Witness ==
    /\ pc = "failed"
    /\ next_block = 2
    /\ Len(write_log) = 1
    /\ docs[write_log[1].path] = write_log[1].content

---------------------------------------------------------------------------
(* Properties of the formatting functions *)

\* format_inputs was applied to a block definition with the one property
\* "field"
OneFieldFormatted ==
    /\ fmt_pc = "done"
    /\ fmt_in.fn = "format_inputs"
    /\ "properties" \in DOMAIN fmt_in.arg
    /\ Len(fmt_in.arg.properties) = 1
    /\ fmt_in.arg.properties[1].name = "field"
FieldDefinition == fmt_in.arg.properties[1].definition

BlockOf(definition) ==
    [properties |-> <<[name |-> "field", definition |-> definition]>>]

\* the property is a union: it has no items, no primitive type, and one of
\* anyOf, oneOf, allOf
IsUnionField ==
    /\ OneFieldFormatted
    /\ "items" \notin DOMAIN FieldDefinition
    /\ "type" \notin DOMAIN FieldDefinition
    /\ {"anyOf", "oneOf", "allOf"} \cap DOMAIN FieldDefinition # {}

NonReferenceBranches ==
    non_reference_branches(union_branches(FieldDefinition))

\* every non-reference branch of the union resolves to a type name
BranchesResolve ==
    /\ NonReferenceBranches # <<>>
    /\ \A i \in 1..Len(NonReferenceBranches) :
          branch_type_name(NonReferenceBranches[i]).kind = "return"

\* the type names the non-reference branches resolve to
ResolvedNames ==
    {branch_type_name(NonReferenceBranches[i]).value[1] :
        i \in 1..Len(NonReferenceBranches)}

StringOrNull == [anyOf |-> <<[type |-> "string"], [type |-> "null"]>>]

\* C5 as stated: a union whose non-reference branches resolve, once
\* duplicates and "None" are removed, to one type name is displayed as that
\* name without wrapper; anyOf [string, null] gives "str", not a reference.
C5_SingleNameUnwrapped ==
    (IsUnionField /\ BranchesResolve
        /\ Cardinality(ResolvedNames \ {"None"}) = 1) =>
        /\ fmt_out.kind = "return"
        /\ Len(fmt_out.value) = 1
        /\ \A n \in ResolvedNames \ {"None"} : fmt_out.value[1][2] = n
        /\ fmt_in.arg = BlockOf(StringOrNull) =>
              fmt_out.value[1] = <<"field", "str", "not available", FALSE>>

\* C5 as the code has it: such a union is displayed as the bare name when it
\* has exactly one non-reference branch, and otherwise as Optional[name]
\* when a branch resolved to "None" and Union[name] when none did;
\* anyOf [string, null] gives "Optional[str]", not a reference.
C5_SingleNameWrappedByBranchCount ==
    (IsUnionField /\ BranchesResolve
        /\ Cardinality(ResolvedNames \ {"None"}) = 1) =>
        /\ fmt_out.kind = "return"
        /\ Len(fmt_out.value) = 1
        /\ \A n \in ResolvedNames \ {"None"} :
              fmt_out.value[1][2] =
                  IF Len(NonReferenceBranches) = 1 THEN n
                  ELSE IF "None" \in ResolvedNames
                  THEN "Optional[" \o n \o "]"
                  ELSE "Union[" \o n \o "]"
        /\ fmt_in.arg = BlockOf(StringOrNull) =>
              fmt_out.value[1]
                  = <<"field", "Optional[str]", "not available", FALSE>>

\* anyOf [string, null] was formatted
C5_Witness ==
    /\ IsUnionField
    /\ fmt_in.arg = BlockOf(StringOrNull)
    /\ fmt_out.kind = "return"

\* C6: anyOf [string, integer], the branches in either order, is always
\* displayed as "Union[int, str]", not a reference.
C6_UnionNamesSorted ==
    (OneFieldFormatted
        /\ FieldDefinition \in
              {[anyOf |-> <<[type |-> "string"], [type |-> "integer"]>>],
               [anyOf |-> <<[type |-> "integer"], [type |-> "string"]>>]}) =>
        fmt_out = Returns(<< <<"field", "Union[int, str]",
                               "not available", FALSE>> >>)

\* C7: a property not named "type", without a primitive type and with
\* items, is skipped when items carries a reference marker; otherwise
\* format_inputs returns one four-part field for it: its name, the display
\* type and the reference flag that create_array_typing gives for the
\* property's array schema, and its description or "not available".
C7_ArrayPropertyEmitsField ==
    (OneFieldFormatted
        /\ "items" \in DOMAIN FieldDefinition
        /\ ~("type" \in DOMAIN FieldDefinition
             /\ FieldDefinition["type"] \in DOMAIN TYPE_MAPPING)) =>
        IF "reference" \in DOMAIN FieldDefinition["items"]
        THEN fmt_out = Returns(<<>>)
        ELSE /\ fmt_out.kind = "return"
             /\ Len(fmt_out.value) = 1
             /\ Len(fmt_out.value[1]) = 4
             /\ fmt_out.value[1][1] = "field"
             /\ fmt_out.value[1][3] = description_of(FieldDefinition)
             /\ create_array_typing(FieldDefinition).kind = "return" =>
                   <<fmt_out.value[1][2], fmt_out.value[1][4]>>
                       = create_array_typing(FieldDefinition).value

\* C8: for an array schema with items, create_array_typing raises nothing
\* and returns a pair of a display type and a reference flag: the prefix is
\* Set when uniqueItems is true and List otherwise; empty items give
\* prefix[Any] and FALSE; an unknown inner type name, or items without a
\* type, give the inner name "unknown".
C8_ArrayTypingAlwaysReturnsPair ==
    (fmt_pc = "done" /\ fmt_in.fn = "create_array_typing") =>
        LET schema == fmt_in.arg
            prefix == IF "uniqueItems" \in DOMAIN schema
                         /\ schema["uniqueItems"]
                      THEN "Set" ELSE "List"
        IN  /\ fmt_out.kind = "return"
            /\ Len(fmt_out.value) = 2
            /\ fmt_out.value[2] \in BOOLEAN
            /\ DOMAIN schema["items"] = {} =>
                  fmt_out.value = <<prefix \o "[Any]", FALSE>>
            /\ schema["items"] = [type |-> "string"] =>
                  fmt_out.value = <<prefix \o "[str]", FALSE>>
            /\ (DOMAIN schema["items"] # {}
                /\ ("type" \notin DOMAIN schema["items"]
                    \/ schema["items"]["type"] = "object")) =>
                  fmt_out.value[1] = prefix \o "[unknown]"

---------------------------------------------------------------------------
(* Properties of take_static_crop *)

\* C10: the crop window lies inside the image, so the reported left-top
\* origin is not negative, and the slice taken is the window, as wide as
\* round(W * width) and as high as round(H * height).
C10_CropWindowInsideImage ==
    (crop_pc = "done") =>
        /\ 0 <= crop_out.x_min /\ crop_out.x_min <= crop_out.x_max
        /\ crop_out.x_max <= crop_in.shape[2]
        /\ 0 <= crop_out.y_min /\ crop_out.y_min <= crop_out.y_max
        /\ crop_out.y_max <= crop_in.shape[1]
        /\ crop_out.cols = crop_out.x_min .. (crop_out.x_max - 1)
        /\ crop_out.rows = crop_out.y_min .. (crop_out.y_max - 1)
        /\ Cardinality(crop_out.cols)
             = RoundHalfEven(crop_in.shape[2] * crop_in.width, Den)
        /\ Cardinality(crop_out.rows)
             = RoundHalfEven(crop_in.shape[1] * crop_in.height, Den)

===========================================================================
